---- MODULE Spec2Model ----
(***************************************************************************)
(* Factor algebra of prob_4e.py: BayesNet.add, Variable, CPTable,          *)
(* ProbDist/normalize, Factor.pointwise_product, Factor.sum_out,           *)
(* matches_evidence, all_consistent_events, filter_event_values and        *)
(* variable_to_factor.                                                     *)
(*                                                                         *)
(* Python objects are modelled by reference where the code shares them: a  *)
(* Variable is its position in the heap `variables` (the order of          *)
(* BayesNet.variables), and a Factor's `variables` attribute is either a   *)
(* list of its own or the very list object held by some Variable's        *)
(* `parents` attribute.  Numbers are exact rationals [n, d].               *)
(***************************************************************************)
EXTENDS Integers, Sequences, FiniteSets, TLC

VARIABLES variables, lookup, factors, call, ret

vars == <<variables, lookup, factors, call, ret>>

\* ------------------------------------------------------------- bounds
MaxVars == 2        \* Variables a network may hold
MaxParentNames == 1 \* length of the parentnames argument of add
MaxAlias == 2       \* variable_to_factor calls per Variable
MaxFactors == 2     \* Factors kept in the pool of returned Factors
MaxEvidence == 1    \* entries of an evidence mapping
MaxSeed == 2        \* tables drawn per variable list and shape
MaxList == 3        \* length of a drawn variable list

\* ------------------------------------------------------------- outcomes
\* T = Bool(True), F = Bool(False): ints 1 and 0
T == 1
F == 0

\* ------------------------------------------------------------- numbers
RECURSIVE GCD(_, _)
GCD(a, b) == IF b = 0 THEN a ELSE GCD(b, a % b)

Abs(x) == IF x < 0 THEN 0 - x ELSE x

Rat(n, d) ==
    LET g == GCD(Abs(n), Abs(d))
        s == IF d < 0 THEN 0 - 1 ELSE 1
    IN  [n |-> (s * n) \div g, d |-> (s * d) \div g]

Zero == [n |-> 0, d |-> 1]
One == [n |-> 1, d |-> 1]

RMul(x, y) == Rat(x.n * y.n, x.d * y.d)
RAdd(x, y) == Rat(x.n * y.d + y.n * x.d, x.d * y.d)
RSub(x, y) == Rat(x.n * y.d - y.n * x.d, x.d * y.d)
RDiv(x, y) == Rat(x.n * y.d, x.d * y.n)

\* sum(...) of the values f[k], k in S (Python's sum starts from 0)
RECURSIVE RSum(_, _)
RSum(f, S) ==
    IF S = {} THEN Zero
    ELSE LET k == CHOOSE x \in S : TRUE IN RAdd(f[k], RSum(f, S \ {k}))

\* ------------------------------------------------------------- sequences
Range(s) == {s[i] : i \in 1..Len(s)}

\* list.index(v): the first position holding v; 0 stands for ValueError
Index(s, v) ==
    IF \E i \in 1..Len(s) : s[i] = v
    THEN CHOOSE i \in 1..Len(s) : s[i] = v /\ \A j \in 1..(i - 1) : s[j] # v
    ELSE 0

\* a set of ints as the list of its members in increasing order
RECURSIVE SetToSeq(_)
SetToSeq(S) ==
    IF S = {} THEN <<>>
    ELSE LET m == CHOOSE x \in S : \A y \in S : x <= y
         IN  <<m>> \o SetToSeq(S \ {m})

\* the lists of length <= n over S without a repeated member
RECURSIVE DistinctSeqs(_, _)
DistinctSeqs(S, n) ==
    IF n = 0 THEN {<<>>}
    ELSE LET shorter == DistinctSeqs(S, n - 1)
         IN  shorter \cup {Append(p[1], p[2]) :
                             p \in {q \in shorter \X S : q[2] \notin Range(q[1])}}

\* the orderings of a set: list(set(...)) may come out in any of them
Orderings(S) == {s \in DistinctSeqs(S, Cardinality(S)) : Len(s) = Cardinality(S)}

\* ------------------------------------------------------------- exceptions
Ok(v) == [exc |-> "none", val |-> v]
Raise(e, dummy) == [exc |-> e, val |-> dummy]

\* ------------------------------------------------------------- Evidence
\* A dict keeps insertion order; it is the list of its <<key, value>> items.
Keys(d) == {d[i][1] : i \in 1..Len(d)}

GetItem(d, k) == d[CHOOSE i \in 1..Len(d) : d[i][1] = k][2]

\* dict.__setitem__: an existing key keeps its place and takes the new value
SetItem(d, k, v) ==
    IF k \in Keys(d)
    THEN [i \in 1..Len(d) |-> IF d[i][1] = k THEN <<k, v>> ELSE d[i]]
    ELSE Append(d, <<k, v>>)

\* zip(a, b): pairs up to the shorter length
Zip(a, b) ==
    LET n == IF Len(a) < Len(b) THEN Len(a) ELSE Len(b)
    IN  [i \in 1..n |-> <<a[i], b[i]>>]

\* Evidence(pairs): the dict built from a list of pairs, in order
RECURSIVE EvidenceFrom(_, _)
EvidenceFrom(pairs, i) ==
    IF i = 0 THEN <<>>
    ELSE SetItem(EvidenceFrom(pairs, i - 1), pairs[i][1], pairs[i][2])

Evidence(pairs) == EvidenceFrom(pairs, Len(pairs))

\* ------------------------------------------------------------- helpers
\* all(... for v in evidence) from the i-th item on: stops at the first item
\* that disagrees; list.index raises ValueError, row[...] raises IndexError.
RECURSIVE MatchesFrom(_, _, _, _)
MatchesFrom(row, evidence, var_ordering, i) ==
    IF i > Len(evidence) THEN "True"
    ELSE LET k == Index(var_ordering, evidence[i][1])
         IN  IF k = 0 THEN "ValueError"
             ELSE IF k > Len(row) THEN "IndexError"
             ELSE IF evidence[i][2] = row[k]
                  THEN MatchesFrom(row, evidence, var_ordering, i + 1)
                  ELSE "False"

\* a faulty variant: compares the evidence with the row by the evidence's own order
MatchesWrongPosition(row, evidence, var_ordering) ==
    IF \A i \in 1..Len(evidence) : i <= Len(row) /\ evidence[i][2] = row[i]
    THEN "True" ELSE "False"

matches_evidence(row, evidence, var_ordering) ==
    MatchesFrom(row, evidence, var_ordering, 1)

\* itertools.product(*doms): the first list varies slowest
RECURSIVE ProductRows(_)
ProductRows(doms) ==
    IF doms = <<>> THEN << <<>> >>
    ELSE LET rest == ProductRows(Tail(doms))
             heads == SetToSeq(Head(doms))
             n == Len(rest)
         IN  [i \in 1..(Len(heads) * n) |->
                 <<heads[((i - 1) \div n) + 1]>> \o rest[((i - 1) % n) + 1]]

\* the members of a list that pass the test, in order
RECURSIVE SelectRows(_, _, _, _)
SelectRows(rows, evidence, vs, i) ==
    IF i = 0 THEN <<>>
    ELSE LET before == SelectRows(rows, evidence, vs, i - 1)
         IN  IF matches_evidence(rows[i], evidence, vs) = "True"
             THEN Append(before, rows[i]) ELSE before

\* a faulty variant: the whole Cartesian product, the evidence ignored
AllEventsUnfiltered(heap, vs, evidence) ==
    Ok(ProductRows([i \in 1..Len(vs) |-> heap[vs[i]].domain]))

all_consistent_events(heap, vs, evidence) ==
    LET all_events == ProductRows([i \in 1..Len(vs) |-> heap[vs[i]].domain])
        bad == {i \in 1..Len(all_events) :
                   matches_evidence(all_events[i], evidence, vs) \notin {"True", "False"}}
    IN  IF bad # {}
        THEN Raise(matches_evidence(all_events[CHOOSE i \in bad : \A j \in bad : i <= j],
                                    evidence, vs), <<>>)
        ELSE Ok(SelectRows(all_events, evidence, vs, Len(all_events)))

\* a faulty variant: the values of the event in the event's own order, not the list's
FilterInEventOrder(variable_list, event) ==
    IF Range(variable_list) \subseteq Keys(event)
    THEN Ok(LET kept == SelectSeq(event, LAMBDA item : item[1] \in Range(variable_list))
            IN  [i \in 1..Len(kept) |-> kept[i][2]])
    ELSE Raise("KeyError", <<>>)

\* tuple(event[var] for var in variable_list): KeyError when a var is no key
filter_event_values(variable_list, event) ==
    IF Range(variable_list) \subseteq Keys(event)
    THEN Ok([i \in 1..Len(variable_list) |-> GetItem(event, variable_list[i])])
    ELSE Raise("KeyError", <<>>)

\* ------------------------------------------------------------- Factor
\* A Factor as the operations read it: its variable list and its table.
Factor(vs, prob_mapping) == [variables |-> vs, table |-> prob_mapping]

\* a faulty variant: the key is read off the mapping by position, not by Variable
FactorGetItemByPosition(self, mapping) ==
    LET key == [i \in 1..Len(self.variables) |-> mapping[i][2]]
    IN  IF Len(mapping) < Len(self.variables) THEN Raise("KeyError", Zero)
        ELSE IF key \notin DOMAIN self.table THEN Raise("KeyError", Zero)
        ELSE Ok(self.table[key])

\* Factor.__getitem__ with a dict mapping
FactorGetItem(self, mapping) ==
    LET key == filter_event_values(self.variables, mapping)
    IN  IF key.exc # "none" THEN Raise(key.exc, Zero)
        ELSE IF key.val \notin DOMAIN self.table THEN Raise("KeyError", Zero)
        ELSE Ok(self.table[key.val])

\* Factor.pointwise_product; `vs` is list(set(self.variables) |
\* set(other.variables)), whose order the caller cannot rely on.
pointwise_product(heap, self, other, evidence, vs) ==
    LET events == all_consistent_events(heap, vs, evidence)
        rows == Range(events.val)
        p_self(new_row) == FactorGetItem(self, Evidence(Zip(vs, new_row)))
        p_other(new_row) == FactorGetItem(other, Evidence(Zip(vs, new_row)))
    IN  IF events.exc # "none" THEN Raise(events.exc, Factor(<<>>, <<>>))
        ELSE IF \E r \in rows : p_self(r).exc # "none" \/ p_other(r).exc # "none"
        THEN Raise("KeyError", Factor(<<>>, <<>>))
        ELSE Ok(Factor(vs, [r \in rows |-> RMul(p_self(r).val, p_other(r).val)]))

\* a faulty variant: rows are matched against the remaining list, not the Factor's own
SumOutByRemaining(heap, self, var, evidence) ==
    LET remaining_vars == SelectSeq(self.variables, LAMBDA X : X # var)
        events == all_consistent_events(heap, remaining_vars, evidence)
        new_rows == Range(events.val)
        m(row, new_row) ==
            matches_evidence(row, Evidence(Zip(remaining_vars, new_row)), remaining_vars)
    IN  IF events.exc # "none" THEN Raise(events.exc, Factor(<<>>, <<>>))
        ELSE Ok(Factor(remaining_vars,
                       [new_row \in new_rows |->
                           RSum(self.table,
                                {row \in DOMAIN self.table : m(row, new_row) = "True"})]))

\* Factor.sum_out
sum_out(heap, self, var, evidence) ==
    LET remaining_vars == SelectSeq(self.variables, LAMBDA X : X # var)
        events == all_consistent_events(heap, remaining_vars, evidence)
        new_rows == Range(events.val)
        m(row, new_row) ==
            matches_evidence(row, Evidence(Zip(remaining_vars, new_row)), self.variables)
        failing == {p \in (DOMAIN self.table) \X new_rows :
                       m(p[1], p[2]) \notin {"True", "False"}}
    IN  IF events.exc # "none" THEN Raise(events.exc, Factor(<<>>, <<>>))
        ELSE IF failing # {}
        THEN Raise(LET p == CHOOSE q \in failing : TRUE IN m(p[1], p[2]), Factor(<<>>, <<>>))
        ELSE Ok(Factor(remaining_vars,
                       [new_row \in new_rows |->
                           RSum(self.table,
                                {row \in DOMAIN self.table : m(row, new_row) = "True"})]))

\* ------------------------------------------------------------- Python values
\* What a caller passes as a cpt: a float, or a dict whose keys are tuples or
\* bare outcomes.  A key is [tuple, k]: the tuple k, or the bare value k[1].
Float(n, d) == [tag |-> "float", p |-> Rat(n, d)]
Dict(items) == [tag |-> "dict", items |-> items]
TupleKey(k) == [tuple |-> TRUE, k |-> k]
BareKey(v) == [tuple |-> FALSE, k |-> <<v>>]

\* normalize(dist) for a dict: every value divided by the total
normalize(dist) ==
    LET total == RSum(dist, DOMAIN dist)
    IN  [key \in DOMAIN dist |-> RDiv(dist[key], total)]

\* ProbDist(mapping): a float p abbreviates {T: p, F: 1 - p}
ProbDist(mapping) ==
    IF mapping.tag = "float"
    THEN normalize([o \in {T, F} |-> IF o = T THEN mapping.p ELSE RSub(One, mapping.p)])
    ELSE normalize([o \in {key.k[1] : key \in DOMAIN mapping.items} |->
                       mapping.items[BareKey(o)].p])

\* CPTable(mapping, parents): no parents wraps a distribution as {(): dist};
\* one parent turns a bare key into a one-tuple.
CPTable(mapping, parents) ==
    LET wrapped ==
            IF Len(parents) = 0
               /\ ~(mapping.tag = "dict" /\ DOMAIN mapping.items = {TupleKey(<<>>)})
            THEN Dict([key \in {TupleKey(<<>>)} |-> mapping])
            ELSE mapping
        Row(key) == IF Len(parents) = 1 /\ ~key.tuple THEN TupleKey(key.k) ELSE key
    IN  [row \in {Row(key) : key \in DOMAIN wrapped.items} |->
            ProbDist(wrapped.items[CHOOSE key \in DOMAIN wrapped.items : Row(key) = row])]

\* Variable(name, cpt, parents)
Variable(name, cpt, parents) ==
    LET table == CPTable(cpt, parents)
    IN  [name |-> name,
         parents |-> parents,
         cpt |-> table,
         domain |-> UNION {DOMAIN table[row] : row \in DOMAIN table}]

\* ------------------------------------------------------------- the heap
\* A pooled Factor's `variables` attribute names a list object: one of its
\* own (own, list), or the `parents` list of Variable `of`.
OwnList(vs) == [own |-> TRUE, list |-> vs, of |-> 0]
ParentsOf(v) == [own |-> FALSE, list |-> <<>>, of |-> v]

\* the list a Factor's `variables` attribute holds now
ListOf(heap, f) == IF f.variables.own THEN f.variables.list ELSE heap[f.variables.of].parents

\* a pooled Factor as the operations read it
Deref(heap, f) == Factor(ListOf(heap, f), f.table)

\* ------------------------------------------------------------- inputs
Names == {"Rain", "WetGrass"}

Outcomes == {T, F}

\* the tuples of length n over S
RECURSIVE Tuples(_, _)
Tuples(S, n) ==
    IF n = 0 THEN {<<>>}
    ELSE {Append(t, x) : t \in Tuples(S, n - 1), x \in S}

\* the cpt arguments add is called with, by number of parents
CptMenu(n) ==
    IF n = 0
    THEN {Float(3, 10),
          Dict([key \in {BareKey(T), BareKey(F)} |->
                   IF key = BareKey(T) THEN Float(1, 1) ELSE Float(3, 1)])}
    ELSE IF n = 1
    THEN {Dict([key \in {BareKey(T), BareKey(F)} |->
                   IF key = BareKey(T) THEN Float(9, 10) ELSE Float(1, 10)])}
    ELSE {Dict([key \in {TupleKey(t) : t \in Tuples(Outcomes, n)} |->
                   IF key.k[1] = T THEN Float(9, 10) ELSE Float(1, 10)])}

ParentNamesMenu == UNION {Tuples(Names, n) : n \in 0..MaxParentNames}

\* the evidence mappings over the Variables of a heap: at most MaxEvidence
\* items, keyed by Variable
EvidenceMenu(heap) ==
    {e \in UNION {Tuples((1..Len(heap)) \X Outcomes, n) : n \in 0..MaxEvidence} :
        \A i, j \in 1..Len(e) : i # j => e[i][1] # e[j][1]}

\* how often variable_to_factor has appended Variable v to its own parents
Aliased(heap, v) == Cardinality({i \in 1..Len(heap[v].parents) : heap[v].parents[i] = v})

\* ------------------------------------------------------------- BayesNet
Init ==
    /\ variables = <<>>
    /\ lookup = <<>>
    /\ factors = <<>>
    /\ call = [op |-> "init"]
    /\ ret = Ok(0)

\* BayesNet.add; a parent name that was never added raises KeyError before
\* anything is stored
Add(name, parentnames, cpt) ==
    /\ call' = [op |-> "add", name |-> name, parentnames |-> parentnames,
                before |-> variables]
    /\ IF Range(parentnames) \subseteq DOMAIN lookup
       THEN LET parents == [i \in 1..Len(parentnames) |-> lookup[parentnames[i]]]
                var == Variable(name, cpt, parents)
            IN  /\ variables' = Append(variables, var)
                /\ lookup' = [n \in (DOMAIN lookup) \cup {name} |->
                                 IF n = name THEN Len(variables) + 1 ELSE lookup[n]]
                /\ ret' = Ok(Len(variables) + 1)
       ELSE /\ UNCHANGED <<variables, lookup>>
            /\ ret' = Raise("KeyError", 0)
    /\ UNCHANGED factors

\* a faulty variant: the Variable's own value is put first in the row, not last
VtfTableValueFirst(heap, var, evidence) ==
    LET cpt == heap[var].cpt
        pairs == {p \in (DOMAIN cpt) \X heap[var].domain : p[2] \in DOMAIN cpt[p[1]]}
    IN  Ok([r \in {<<p[2]>> \o p[1].k : p \in pairs} |->
               LET p == CHOOSE q \in pairs : <<q[2]>> \o q[1].k = r IN cpt[p[1]][p[2]]])

\* variable_to_factor: `variables = var.parents` names the Variable's own
\* list, so the append is made to var.parents, and the Factor returned holds
\* that same list.  The append comes before any exception.
VtfTable(heap, var, evidence) ==
    LET vs == heap[var].parents
        cpt == heap[var].cpt
        pairs == {p \in (DOMAIN cpt) \X heap[var].domain : p[2] \in DOMAIN cpt[p[1]]}
        new_row(p) == p[1].k \o <<p[2]>>
        m(p) == matches_evidence(new_row(p), evidence, vs)
        failing == {p \in pairs : m(p) \notin {"True", "False"}}
    IN  IF \E p \in pairs : ~p[1].tuple THEN Raise("TypeError", <<>>)
        ELSE IF failing # {}
        THEN Raise(m(CHOOSE p \in failing : TRUE), <<>>)
        ELSE Ok([r \in {new_row(p) : p \in {q \in pairs : m(q) = "True"}} |->
                   LET p == CHOOSE q \in pairs : new_row(q) = r IN cpt[p[1]][p[2]]])

VariableToFactor(var, evidence) ==
    /\ LET appended == [variables EXCEPT ![var].parents = Append(@, var)]
           table == VtfTable(appended, var, evidence)
       IN  /\ variables' = appended
           /\ call' = [op |-> "variable_to_factor", var |-> var, evidence |-> evidence,
                       before |-> variables]
           /\ IF table.exc = "none"
              THEN /\ factors' = Append(factors, [variables |-> ParentsOf(var),
                                                  table |-> table.val])
                   /\ ret' = Ok(Len(factors) + 1)
              ELSE /\ factors' = factors
                   /\ ret' = Raise(table.exc, 0)
    /\ UNCHANGED lookup

\* self.pointwise_product(other, evidence) on two Factors of the pool
PointwiseProduct(i, j, evidence, vs) ==
    /\ LET r == pointwise_product(variables, Deref(variables, factors[i]),
                                  Deref(variables, factors[j]), evidence, vs)
       IN  /\ call' = [op |-> "pointwise_product", self |-> i, other |-> j,
                       evidence |-> evidence, before |-> variables]
           /\ IF r.exc = "none"
              THEN /\ factors' = Append(factors, [variables |-> OwnList(r.val.variables),
                                                  table |-> r.val.table])
                   /\ ret' = Ok(Len(factors) + 1)
              ELSE /\ factors' = factors
                   /\ ret' = Raise(r.exc, 0)
    /\ UNCHANGED <<variables, lookup>>

\* self.sum_out(var, evidence) on a Factor of the pool
SumOut(i, var, evidence) ==
    /\ LET r == sum_out(variables, Deref(variables, factors[i]), var, evidence)
       IN  /\ call' = [op |-> "sum_out", self |-> i, var |-> var,
                       evidence |-> evidence, before |-> variables]
           /\ IF r.exc = "none"
              THEN /\ factors' = Append(factors, [variables |-> OwnList(r.val.variables),
                                                  table |-> r.val.table])
                   /\ ret' = Ok(Len(factors) + 1)
              ELSE /\ factors' = factors
                   /\ ret' = Raise(r.exc, 0)
    /\ UNCHANGED <<variables, lookup>>

UnionVars(i, j) == Range(ListOf(variables, factors[i])) \cup Range(ListOf(variables, factors[j]))

\* Any calls in any order, while the network, the pool and the number of
\* variable_to_factor calls per Variable are within the bounds.
Next ==
    \/ /\ Len(variables) < MaxVars
       /\ \E name \in Names, parentnames \in ParentNamesMenu :
              \E cpt \in CptMenu(Len(parentnames)) : Add(name, parentnames, cpt)
    \/ /\ Len(factors) < MaxFactors
       /\ \E var \in 1..Len(variables), evidence \in EvidenceMenu(variables) :
              /\ Aliased(variables, var) < MaxAlias
              /\ VariableToFactor(var, evidence)
    \/ /\ Len(factors) < MaxFactors
       /\ \E i, j \in 1..Len(factors) :
              \E vs \in Orderings(UnionVars(i, j)) : PointwiseProduct(i, j, <<>>, vs)
    \/ /\ Len(factors) < MaxFactors
       /\ \E i \in 1..Len(factors) :
              \E var \in Range(ListOf(variables, factors[i])) : SumOut(i, var, <<>>)

Spec == Init /\ [][Next]_vars

\* ------------------------------------------------------------- the network
\* the pooled Factor the last call returned
Returned == Deref(variables, factors[ret.val])

\* C4: variable_to_factor, pointwise_product and sum_out leave every input as
\* it was: after such a call the parents, cpt and domain of every Variable
\* are what they were before the call.
C4_InputsUnchanged ==
    call.op \in {"variable_to_factor", "pointwise_product", "sum_out"}
        => variables = call.before

\* the Factor invariant of one pooled Factor: every key has one value per
\* entry of the variable list, each in the domain of the Variable there
FactorInvariant(heap, f) ==
    LET vs == ListOf(heap, f)
    IN  \A key \in DOMAIN f.table :
            /\ Len(key) = Len(vs)
            /\ \A i \in 1..Len(vs) : key[i] \in heap[vs[i]].domain

\* C9: every Factor returned so far keeps the Factor invariant, now and
\* after every later call.
C9_FactorInvariant ==
    \A k \in 1..Len(factors) : FactorInvariant(variables, factors[k])

\* C10: every parent of a Variable stands strictly earlier in
\* network.variables than the Variable, so no Variable is its own parent.
C10_TopologicallySorted ==
    \A v \in 1..Len(variables) :
        \A i \in 1..Len(variables[v].parents) : variables[v].parents[i] < v

\* the entries C3 expects of variable_to_factor: one per CPT row and outcome
\* that agrees with the evidence on the variables of the list vs
ExpectedEntries(heap, var, vs, evidence) ==
    LET cpt == heap[var].cpt
        agrees(r) == \A i \in 1..Len(evidence) :
                         \A k \in 1..Len(vs) :
                             (vs[k] = evidence[i][1] /\ k <= Len(r)) => r[k] = evidence[i][2]
    IN  {e \in {<<row.k \o <<value>>, cpt[row][value]>> :
                    row \in DOMAIN cpt, value \in heap[var].domain} : agrees(e[1])}

\* C3: for every Variable of the network and every evidence over the
\* network's Variables, variable_to_factor returns a Factor whose list is the
\* parents followed by the Variable and whose table holds exactly the CPT
\* entries that agree with the evidence on the variables of the list.
C3_VariableToFactor ==
    call.op = "variable_to_factor" =>
        /\ ret.exc = "none"
        /\ LET vs == call.before[call.var].parents \o <<call.var>>
           IN  /\ Returned.variables = vs
               /\ {<<r, Returned.table[r]>> : r \in DOMAIN Returned.table}
                      = ExpectedEntries(call.before, call.var, vs, call.evidence)


\* ------------------------------------------------------------- elimination
\* The parent -> child scenario: add the parent, add the child, convert both
\* (in either order) under no evidence, join the two Factors, sum the parent
\* out.
ParentCpts ==
    {Float(3, 10), Float(1, 2),
     Dict([key \in {BareKey(T), BareKey(F)} |->
              IF key = BareKey(T) THEN Float(1, 1) ELSE Float(3, 1)])}

ChildCpts ==
    {Dict([key \in {BareKey(T), BareKey(F)} |->
              IF key = BareKey(T) THEN Float(9, 10) ELSE Float(1, 10)]),
     Dict([key \in {TupleKey(<<T>>), TupleKey(<<F>>)} |->
              IF key = TupleKey(<<T>>) THEN Float(1, 2) ELSE Float(1, 5)]),
     Dict([key \in {BareKey(T), BareKey(F)} |->
              IF key = BareKey(T)
              THEN Dict([o \in {BareKey(T), BareKey(F)} |->
                            IF o = BareKey(T) THEN Float(2, 1) ELSE Float(1, 1)])
              ELSE Float(1, 4)])}

ElimNext ==
    \/ /\ Len(variables) = 0
       /\ \E cpt \in ParentCpts : Add("Rain", <<>>, cpt)
    \/ /\ Len(variables) = 1
       /\ \E cpt \in ChildCpts : Add("WetGrass", <<"Rain">>, cpt)
    \/ /\ Len(variables) = 2
       /\ Len(factors) < 2
       /\ \E var \in 1..2 :
              /\ Aliased(variables, var) = 0
              /\ VariableToFactor(var, <<>>)
    \/ /\ Len(factors) = 2
       /\ \E i, j \in 1..2 :
              /\ i # j
              /\ \E vs \in Orderings(UnionVars(i, j)) : PointwiseProduct(i, j, <<>>, vs)
    \/ /\ Len(factors) = 3
       /\ SumOut(3, lookup["Rain"], <<>>)

SpecElim == Init /\ [][ElimNext]_vars

\* P(parent = p) and P(child = c | parent = p) as the network's CPTs hold them
PParent(p) == variables[1].cpt[TupleKey(<<>>)][p]
PChild(c, p) == variables[2].cpt[TupleKey(<<p>>)][c]

\* C8: every call of the scenario returns, and the Factor that sum_out
\* returns is over the child alone, with at each child outcome c the sum over
\* the parent outcomes p of P(p) * P(c | p); for P(Rain) = 0.3,
\* P(WetGrass | Rain = T) = 0.9, P(WetGrass | Rain = F) = 0.1 it holds 0.34 at
\* WetGrass = T.
C8_ChildMarginal ==
    /\ ret.exc = "none"
    /\ call.op = "sum_out" =>
         /\ Returned.variables = <<2>>
         /\ DOMAIN Returned.table = {<<c>> : c \in variables[2].domain}
         /\ \A c \in variables[2].domain :
                Returned.table[<<c>>]
                    = RSum([p \in variables[1].domain |-> RMul(PParent(p), PChild(c, p))],
                           variables[1].domain)
         /\ (/\ PParent(T) = Rat(3, 10)
             /\ PChild(T, T) = Rat(9, 10)
             /\ PChild(T, F) = Rat(1, 10)) => Returned.table[<<T>>] = Rat(34, 100)

\* the Rain -> WetGrass network has been eliminated down to WetGrass
C8_Witness ==
    /\ call.op = "sum_out"
    /\ ret.exc = "none"
    /\ Len(factors) = 4
    /\ PParent(T) = Rat(3, 10)
    /\ PChild(T, T) = Rat(9, 10)
    /\ PChild(T, F) = Rat(1, 10)
    /\ Returned.table[<<T>>] = Rat(17, 50)

\* ------------------------------------------------------------- drawn inputs
\* Three Variables without parents, built as BayesNet.add builds them:
\* X over {F, T}, Y over {0, 1, 2}, Z over {T} alone.
PureHeap ==
    << Variable("X", Float(3, 10), <<>>),
       Variable("Y", Dict([key \in {BareKey(0), BareKey(1), BareKey(2)} |->
                              IF key = BareKey(2) THEN Float(2, 1) ELSE Float(1, 1)]), <<>>),
       Variable("Z", Dict([key \in {BareKey(T)} |-> Float(1, 1)]), <<>>) >>

PureLookup == [n \in {"X", "Y", "Z"} |-> CHOOSE v \in 1..Len(PureHeap) : PureHeap[v].name = n]

\* the values an evidence item may give: every outcome of PureHeap; 2 is
\* outside the domains of X and Z, F outside the domain of Z
PureOutcomes == UNION {PureHeap[v].domain : v \in 1..Len(PureHeap)}

\* the evidence mappings keyed by the Variables in S
Given(S) ==
    {e \in UNION {Tuples(S \X PureOutcomes, n) : n \in 0..MaxEvidence} :
        \A i, j \in 1..Len(e) : i # j => e[i][1] # e[j][1]}

\* the assignments of list vs: one value per position, from the domain of
\* the Variable there
Rows(heap, vs) ==
    {r \in Tuples(UNION {heap[v].domain : v \in Range(vs)}, Len(vs)) :
        \A i \in 1..Len(vs) : r[i] \in heap[vs[i]].domain}

\* a row agrees with an evidence when it holds the evidence's value at the
\* place of every Variable the evidence gives
Agrees(r, vs, evidence) ==
    \A i \in 1..Len(evidence) :
        \A k \in 1..Len(vs) : vs[k] = evidence[i][1] => r[k] = evidence[i][2]

\* a number that no two rows of one list share
RECURSIVE Code(_)
Code(r) == IF r = <<>> THEN 0 ELSE Head(r) + 1 + 4 * Code(Tail(r))

\* the tables drawn for list vs, by seed and shape: "full" stores every
\* assignment, "sparse" none whose first value is T, "stray" one more row
\* whose values are in no domain, "consistent" the assignments that agree
\* with the evidence
DrawnTable(vs, seed, shape, evidence) ==
    LET keys == CASE shape = "full" -> Rows(PureHeap, vs)
                  [] shape = "sparse" -> {r \in Rows(PureHeap, vs) : r = <<>> \/ r[1] # T}
                  [] shape = "stray" -> Rows(PureHeap, vs) \cup {[i \in 1..Len(vs) |-> 3]}
                  [] OTHER -> {r \in Rows(PureHeap, vs) : Agrees(r, vs, evidence)}
    IN  [r \in keys |-> Rat(seed + Code(r), 1)]

Drawn(vs, seed, shape, evidence) ==
    [variables |-> OwnList(vs), table |-> DrawnTable(vs, seed, shape, evidence)]

PureInit(fs, c) ==
    /\ variables = PureHeap
    /\ lookup = PureLookup
    /\ factors = fs
    /\ call = c
    /\ ret = Ok(0)

\* ------------------------------------------------------------- events
\* all_consistent_events(vs, evidence) called on its own
AllConsistentEvents(vs, evidence) ==
    /\ call' = [op |-> "all_consistent_events", variables |-> vs, evidence |-> evidence]
    /\ ret' = all_consistent_events(variables, vs, evidence)
    /\ UNCHANGED <<variables, lookup, factors>>

EventsInit == PureInit(<<>>, [op |-> "init"])

EventsNext ==
    \E vs \in DistinctSeqs(1..Len(variables), MaxList) :
        \E evidence \in Given(Range(vs)) : AllConsistentEvents(vs, evidence)

SpecEvents == EventsInit /\ [][EventsNext]_vars

\* C7 as the spec states it: with no evidence the result is the whole
\* Cartesian product of the domains, product(domain sizes) rows; with
\* evidence it is a strict subset of it, the rows that agree with the
\* evidence.
C7_StrictSubset ==
    call.op = "all_consistent_events" =>
        /\ ret.exc = "none"
        /\ Len(ret.val) = Cardinality(Range(ret.val))
        /\ Range(ret.val) = {r \in Rows(variables, call.variables) :
                                Agrees(r, call.variables, call.evidence)}
        /\ call.evidence = <<>> => Range(ret.val) = Rows(variables, call.variables)
        /\ call.evidence # <<>> => Range(ret.val) # Rows(variables, call.variables)

\* C7 as the code has it: the rows that agree with the evidence, each once;
\* all of the product with no evidence; with evidence, fewer rows exactly
\* when the evidence rules a value of a domain out.
C7_Subset ==
    call.op = "all_consistent_events" =>
        /\ ret.exc = "none"
        /\ Len(ret.val) = Cardinality(Range(ret.val))
        /\ Range(ret.val) = {r \in Rows(variables, call.variables) :
                                Agrees(r, call.variables, call.evidence)}
        /\ call.evidence = <<>> => Range(ret.val) = Rows(variables, call.variables)
        /\ Range(ret.val) # Rows(variables, call.variables)
              <=> \E i \in 1..Len(call.evidence) :
                      variables[call.evidence[i][1]].domain # {call.evidence[i][2]}

\* evidence Z = T over a list that holds Z: every row agrees
C7_Witness ==
    /\ call.op = "all_consistent_events"
    /\ call.evidence = <<<<3, T>>>>
    /\ Len(call.variables) = 2
    /\ Len(ret.val) = Cardinality(Rows(variables, call.variables))

\* ------------------------------------------------------------- sum_out
\* One drawn Factor F; sum_out is called on it with a Variable of its list
\* and an evidence over the others.
SumInit ==
    \E vs \in DistinctSeqs(1..Len(PureHeap), MaxList), seed \in 1..MaxSeed,
       shape \in {"full", "sparse", "stray"} :
        PureInit(<<Drawn(vs, seed, shape, <<>>)>>, [op |-> "init"])

SumNext ==
    /\ Len(factors) = 1
    /\ \E var \in Range(ListOf(variables, factors[1])) :
           \E evidence \in Given(Range(ListOf(variables, factors[1])) \ {var}) :
               SumOut(1, var, evidence)

SpecSum == SumInit /\ [][SumNext]_vars

\* list vs without Variable v, the others in their order
Without(vs, v) ==
    LET k == CHOOSE i \in 1..Len(vs) : vs[i] = v
    IN  SubSeq(vs, 1, k - 1) \o SubSeq(vs, k + 1, Len(vs))

\* the values row r of list vs gives to the Variables of list ws
Restrict(r, vs, ws) ==
    [i \in 1..Len(ws) |-> r[CHOOSE k \in 1..Len(vs) : vs[k] = ws[i]]]

\* the sum of all values of a table
Mass(table) == RSum(table, DOMAIN table)

\* C2: F.sum_out(v, evidence) returns a Factor over F.variables without v,
\* keyed by exactly the assignments of those that agree with the evidence,
\* each holding the sum of F's values over the rows of F that restrict to it
\* (0 when there is none).
C2_SumOut ==
    call.op = "sum_out" =>
        /\ ret.exc = "none"
        /\ LET fac == Deref(variables, factors[call.self])
               rest == Without(fac.variables, call.var)
           IN  /\ Returned.variables = rest
               /\ DOMAIN Returned.table
                      = {r \in Rows(variables, rest) : Agrees(r, rest, call.evidence)}
               /\ \A r \in DOMAIN Returned.table :
                      Returned.table[r]
                          = RSum(fac.table, {row \in DOMAIN fac.table :
                                              Len(row) = Len(fac.variables)
                                              /\ Restrict(row, fac.variables, rest) = r})

\* an assignment of the remaining Variables that no row of F restricts to
\* holds 0, beside one that holds a sum of two rows or more
C2_Witness ==
    /\ call.op = "sum_out"
    /\ ret.exc = "none"
    /\ call.evidence # <<>>
    /\ \E r \in DOMAIN Returned.table : Returned.table[r] = Zero
    /\ \E r \in DOMAIN Returned.table :
           Cardinality({row \in DOMAIN factors[1].table :
                           Restrict(row, factors[1].variables.list, Returned.variables) = r}) > 1

\* C5: with no evidence, summing a Variable out of a Factor that keeps the
\* Factor invariant keeps the sum of all values.
C5_MassPreserved ==
    (/\ call.op = "sum_out"
     /\ call.evidence = <<>>
     /\ FactorInvariant(variables, factors[call.self]))
        => /\ ret.exc = "none"
           /\ Mass(Returned.table) = Mass(factors[call.self].table)

\* a Variable of three outcomes summed out of a Factor over two Variables
C5_Witness ==
    /\ call.op = "sum_out"
    /\ call.evidence = <<>>
    /\ ret.exc = "none"
    /\ FactorInvariant(variables, factors[1])
    /\ Cardinality(variables[call.var].domain) = 3
    /\ Len(Returned.variables) = 1
    /\ Mass(Returned.table) # Zero

\* ------------------------------------------------------------- product
\* Two drawn Factors A and B and an evidence over the Variables of the two;
\* each stores every assignment of its list, or every one that agrees with
\* the evidence.  A.pointwise_product(B, evidence) is called once.
ProdA == {<<>>, <<1>>, <<1, 2>>, <<2, 1>>, <<3, 2>>, <<1, 2, 3>>}
ProdB == {<<>>, <<2>>, <<1>>, <<2, 1>>, <<3, 1>>, <<2, 3, 1>>}

ProdInit ==
    \E vsA \in ProdA, vsB \in ProdB, shape \in {"full", "consistent"} :
        \E evidence \in Given(Range(vsA) \cup Range(vsB)) :
            PureInit(<<Drawn(vsA, 1, shape, evidence), Drawn(vsB, 2, shape, evidence)>>,
                     [op |-> "init", evidence |-> evidence])

ProdNext ==
    /\ Len(factors) = 2
    /\ call.op = "init"
    /\ \E vs \in Orderings(UnionVars(1, 2)) : PointwiseProduct(1, 2, call.evidence, vs)

SpecProd == ProdInit /\ [][ProdNext]_vars

\* C1: A.pointwise_product(B, evidence) returns a Factor over the union of
\* the two variable sets, keyed by exactly the assignments of the union that
\* agree with the evidence, each holding A's value at the assignment's values
\* for A's Variables times B's value at its values for B's Variables.
C1_PointwiseProduct ==
    call.op = "pointwise_product" =>
        /\ ret.exc = "none"
        /\ LET A == Deref(variables, factors[call.self])
               B == Deref(variables, factors[call.other])
               R == Returned
           IN  /\ Range(R.variables) = Range(A.variables) \cup Range(B.variables)
               /\ Len(R.variables) = Cardinality(Range(R.variables))
               /\ DOMAIN R.table
                      = {r \in Rows(variables, R.variables) :
                            Agrees(r, R.variables, call.evidence)}
               /\ \A r \in DOMAIN R.table :
                      R.table[r]
                          = RMul(A.table[Restrict(r, R.variables, A.variables)],
                                 B.table[Restrict(r, R.variables, B.variables)])

\* A and B share a Variable and each has one of its own, the evidence is
\* not empty, and the union came out in an order that continues neither list
C1_Witness ==
    /\ call.op = "pointwise_product"
    /\ ret.exc = "none"
    /\ call.evidence # <<>>
    /\ factors[1].variables.list = <<1, 2>>
    /\ factors[2].variables.list = <<3, 1>>
    /\ Returned.variables = <<2, 3, 1>>
    /\ Cardinality(DOMAIN Returned.table) > 1
    /\ Cardinality(DOMAIN factors[1].table) < 6

\* ------------------------------------------------------------- chains
\* Three drawn Factors A, B, C with complete tables and no evidence; the
\* products A*B, B*A, (A*B)*C, B*C and A*(B*C) are taken in turn, the pool
\* holding them at places 4 to 8.
ChainA == {<<1>>, <<2, 1>>}
ChainB == {<<>>, <<1>>, <<1, 2>>}
ChainC == {<<1>>, <<3>>, <<2, 3>>}

ChainInit ==
    \E vsA \in ChainA, vsB \in ChainB, vsC \in ChainC :
        PureInit(<<Drawn(vsA, 1, "full", <<>>), Drawn(vsB, 2, "full", <<>>),
                   Drawn(vsC, 3, "full", <<>>)>>, [op |-> "init"])

ChainStep(n, i, j) ==
    /\ Len(factors) = n
    /\ \E vs \in Orderings(UnionVars(i, j)) : PointwiseProduct(i, j, <<>>, vs)

ChainNext ==
    \/ ChainStep(3, 1, 2)
    \/ ChainStep(4, 2, 1)
    \/ ChainStep(5, 4, 3)
    \/ ChainStep(6, 2, 3)
    \/ ChainStep(7, 1, 7)

SpecChain == ChainInit /\ [][ChainNext]_vars

\* two Factors give every assignment of one variable set the same value,
\* looked up by Variable
SameValues(f, g) ==
    /\ Range(f.variables) = Range(g.variables)
    /\ \A r \in Rows(variables, f.variables) :
           /\ r \in DOMAIN f.table
           /\ Restrict(r, f.variables, g.variables) \in DOMAIN g.table
           /\ f.table[r] = g.table[Restrict(r, f.variables, g.variables)]

\* C6: with complete tables and no evidence, A*B and B*A give every
\* assignment the same value, and so do (A*B)*C and A*(B*C).
C6_CommutativeAssociative ==
    /\ ret.exc = "none"
    /\ Len(factors) >= 5 =>
           SameValues(Deref(variables, factors[4]), Deref(variables, factors[5]))
    /\ Len(factors) = 8 =>
           SameValues(Deref(variables, factors[6]), Deref(variables, factors[8]))

\* the two three-way products over X, Y, Z came out in different orders
C6_Witness ==
    /\ Len(factors) = 8
    /\ Len(factors[6].variables.list) = 3
    /\ factors[6].variables.list # factors[8].variables.list
    /\ factors[4].variables.list # factors[5].variables.list

====
